---- MODULE Spec2Model ----
(***************************************************************************)
(* bver: the version engine (validate / bump / cast) and the workflow      *)
(* around it (per-file version, git actions, change selection).            *)
(*                                                                         *)
(* A Rust &str is modelled as a sequence of one-character strings, so      *)
(* "1.0" is <<"1", ".", "0">>.  Positions are 1-based here: the Rust byte  *)
(* offset pos of find() is Find(..) - 1, and Find = 0 stands for None.     *)
(***************************************************************************)
EXTENDS Integers, Sequences, FiniteSets, TLC

VARIABLES
    inp,     \* the input handed to the operation: a version string, an action list
    pieces,  \* how many pieces the caller has appended to the input
    op,      \* "input" while the input is being written, then the operation run
    arg,     \* the operation's selector: a FileKind, a bump keyword, a GitAction
    res,     \* the operation's result
    calls,   \* what the operation has called so far, in order
    policy,  \* the OnInvalidVersion policy of get_file_version
    changes, \* the selected flag of each ProposedChange shown by the TUI
    cursor   \* the TUI's highlighted index (ListState::selected)

vars == <<inp, pieces, op, arg, res, calls, policy, changes, cursor>>

\* the part of the state the workflow around the engine uses
workflow == <<calls, policy, changes, cursor>>

\* the workflow has not started
NoWorkflow == calls = <<>> /\ policy = "Error" /\ changes = <<>> /\ cursor = 0

(***************************************************************************)
(* Characters and Rust's string primitives                                 *)
(***************************************************************************)
DigitChars == <<"0", "1", "2", "3", "4", "5", "6", "7", "8", "9">>

LowerChars ==
    <<"a", "b", "c", "d", "e", "f", "g", "h", "i", "j", "k", "l", "m",
      "n", "o", "p", "q", "r", "s", "t", "u", "v", "w", "x", "y", "z">>

UpperChars ==
    <<"A", "B", "C", "D", "E", "F", "G", "H", "I", "J", "K", "L", "M",
      "N", "O", "P", "Q", "R", "S", "T", "U", "V", "W", "X", "Y", "Z">>

Range(f) == {f[i] : i \in DOMAIN f}

DigitSet == Range(DigitChars)

UpperSet == Range(UpperChars)

AlphanumericSet == Range(DigitChars) \cup Range(LowerChars) \cup Range(UpperChars)

is_ascii_digit(c) == c \in DigitSet

is_ascii_alphanumeric(c) == c \in AlphanumericSet

\* the value of each digit character
DigitValues == [c \in DigitSet |-> (CHOOSE i \in 1..10 : DigitChars[i] = c) - 1]

DigitVal(c) == DigitValues[c]

\* char::to_lowercase on the ASCII range
LowerOf == [c \in UpperSet |-> LowerChars[CHOOSE i \in 1..26 : UpperChars[i] = c]]

LowerChar(c) == IF c \in UpperSet THEN LowerOf[c] ELSE c

to_lowercase(s) == [i \in 1..Len(s) |-> LowerChar(s[i])]

AllDigits(s) == \A i \in 1..Len(s) : is_ascii_digit(s[i])

starts_with(s, p) == Len(p) <= Len(s) /\ SubSeq(s, 1, Len(p)) = p

Drop(s, n) == SubSeq(s, n + 1, Len(s))

Take(s, n) == SubSeq(s, 1, n)

\* str::find: the 1-based start of the first occurrence of p in s, 0 for None
Find(s, p) ==
    LET hits == {i \in 1..(Len(s) - Len(p) + 1) : \A k \in 1..Len(p) : s[i + k - 1] = p[k]}
    IN  IF hits = {} THEN 0 ELSE CHOOSE i \in hits : \A j \in hits : i <= j

\* str::split on one character: always at least one part ("" splits into [""])
RECURSIVE Split(_, _)
Split(s, c) ==
    LET p == Find(s, <<c>>)
    IN  IF p = 0 THEN <<s>> ELSE <<Take(s, p - 1)>> \o Split(Drop(s, p), c)

\* str::trim_start_matches: every repetition of the prefix p is removed
RECURSIVE trim_start_matches(_, _)
trim_start_matches(s, p) ==
    IF Len(p) > 0 /\ starts_with(s, p) THEN trim_start_matches(Drop(s, Len(p)), p) ELSE s

\* chars().take_while(is_ascii_digit).count()
DigitRun(s) ==
    LET stops == {i \in 1..Len(s) : ~is_ascii_digit(s[i])}
    IN  IF stops = {} THEN Len(s) ELSE (CHOOSE i \in stops : \A j \in stops : i <= j) - 1

\* the character before position pos lets a marker start there
\* (before.is_empty() || before.ends_with('.') || last char is a digit)
AtBoundary(s, pos) == pos = 1 \/ s[pos - 1] = "." \/ is_ascii_digit(s[pos - 1])

Min(S) == CHOOSE x \in S : \A y \in S : x <= y

(***************************************************************************)
(* u32 values.  A u32 is held as its decimal text without leading zeros    *)
(* (what Display prints), so that 4294967295 and its successor are exact.  *)
(***************************************************************************)
\* u32::MAX, as Display prints it
U32MaxText == <<"4", "2", "9", "4", "9", "6", "7", "2", "9", "5">>

Zero == <<"0">>

One == <<"1">>

\* the decimal text of the value of a digit run: leading zeros dropped
RECURSIVE Canonical(_)
Canonical(s) == IF Len(s) > 1 /\ s[1] = "0" THEN Canonical(Drop(s, 1)) ELSE s

\* a < b on decimal texts without leading zeros
NumLess(a, b) ==
    \/ Len(a) < Len(b)
    \/ /\ Len(a) = Len(b)
       /\ \E i \in 1..Len(a) :
              /\ DigitVal(a[i]) < DigitVal(b[i])
              /\ \A j \in 1..(i - 1) : a[j] = b[j]

\* Err of str::parse::<u32> (no value has an empty text)
ParseErr == <<>>

\* str::parse::<u32>: an optional '+', then at least one digit, value <= u32::MAX
parse_u32(s) ==
    LET body == IF Len(s) > 0 /\ s[1] = "+" THEN Drop(s, 1) ELSE s
    IN  IF body = <<>> \/ ~AllDigits(body) THEN ParseErr
        ELSE IF NumLess(U32MaxText, Canonical(body)) THEN ParseErr
        ELSE Canonical(body)

\* n + 1 on decimal texts, unbounded
RECURSIVE Succ(_)
Succ(n) ==
    IF n = <<>> THEN One
    ELSE IF n[Len(n)] = "9" THEN Succ(Take(n, Len(n) - 1)) \o Zero
    ELSE Take(n, Len(n) - 1) \o <<DigitChars[DigitVal(n[Len(n)]) + 2]>>

(***************************************************************************)
(* Results: Result<(), String> and Result<String, String>                  *)
(*   why  : the message text before the interpolated value                 *)
(*   name : the component name interpolated into the message, if any       *)
(*   val  : Ok's string, or the value the message interpolates             *)
(***************************************************************************)
Ok(v) == [ok |-> TRUE, why |-> "", name |-> "", val |-> v]

Err(w, n, v) == [ok |-> FALSE, why |-> w, name |-> n, val |-> v]

NoResult == [ok |-> FALSE, why |-> "none", name |-> "", val |-> <<>>]

ComponentNames == <<"major", "minor", "patch">>

(***************************************************************************)
(* version.rs: the Validator                                               *)
(***************************************************************************)
\* the first of the three parts that does not parse as u32, 0 if all parse
FirstBadPart(parts) ==
    LET bad == {i \in 1..3 : parse_u32(parts[i]) = ParseErr}
    IN  IF bad = {} THEN 0 ELSE Min(bad)

validate_simple(version) ==
    LET parts == Split(version, ".")
    IN  IF Len(parts) # 3
        THEN Err("Invalid simple version", "", version)
        ELSE LET i == FirstBadPart(parts)
             IN  IF i # 0
                 THEN Err("Invalid version component", ComponentNames[i], parts[i])
                 ELSE Ok(<<>>)

is_valid_local(local) ==
    /\ local # <<>>
    /\ LET segs == Split(local, ".")
       IN  \A i \in 1..Len(segs) :
               /\ segs[i] # <<>>
               /\ \A k \in 1..Len(segs[i]) : is_ascii_alphanumeric(segs[i][k])

\* is_valid_release without the test that a segment is non-empty
is_valid_release_no_empty_test(release) ==
    /\ release # <<>>
    /\ LET segs == Split(release, ".")
       IN  \A i \in 1..Len(segs) : AllDigits(segs[i])

is_valid_release(release) ==
    /\ release # <<>>
    /\ LET segs == Split(release, ".")
       IN  \A i \in 1..Len(segs) : segs[i] # <<>> /\ AllDigits(segs[i])

PreMarkers ==
    << <<"a", "l", "p", "h", "a">>, <<"b", "e", "t", "a">>,
       <<"p", "r", "e", "v", "i", "e", "w">>, <<"r", "c">>,
       <<"a">>, <<"b">>, <<"c">> >>

DotPost == <<".", "p", "o", "s", "t">>
BarePost == <<"p", "o", "s", "t">>
DotDev == <<".", "d", "e", "v">>
BareDev == <<"d", "e", "v">>

\* the 1-based start of the suffix, 0 when no marker is found
split_at_prerelease(version) ==
    LET pre == {Find(version, PreMarkers[m]) : m \in 1..Len(PreMarkers)}
        cand == {p \in pre : p > 0 /\ AtBoundary(version, p)}
                  \cup ({Find(version, DotPost), Find(version, DotDev)} \ {0})
    IN  IF cand = {} THEN 0 ELSE Min(cand)

\* the text left after the first pre-release marker the text starts with, and
\* the digits after it, are consumed
AfterPre(remaining) ==
    LET hit == {m \in 1..Len(PreMarkers) : starts_with(remaining, PreMarkers[m])}
    IN  IF hit = {} THEN remaining
        ELSE LET r == Drop(remaining, Len(PreMarkers[Min(hit)]))
             IN  Drop(r, DigitRun(r))

AfterMarker(remaining, dotted, bare) ==
    IF starts_with(remaining, dotted) \/ starts_with(remaining, bare)
    THEN LET r == trim_start_matches(trim_start_matches(remaining, <<".">>), bare)
         IN  Drop(r, DigitRun(r))
    ELSE remaining

parse_suffixes(suffix) ==
    IF suffix = <<>> THEN Ok(<<>>)
    ELSE LET r1 == AfterPre(to_lowercase(suffix))
             r2 == AfterMarker(r1, DotPost, BarePost)
             r3 == AfterMarker(r2, DotDev, BareDev)
         IN  IF r3 = <<>> THEN Ok(<<>>) ELSE Err("Invalid version suffix", "", r3)

parse_main_version(version) ==
    IF version = <<>> THEN Err("Version string cannot be empty", "", <<>>)
    ELSE LET pos == split_at_prerelease(version)
             release_part == IF pos = 0 THEN version ELSE Take(version, pos - 1)
             remainder == IF pos = 0 THEN <<>> ELSE Drop(version, pos - 1)
         IN  IF ~is_valid_release(release_part)
             THEN Err("Invalid release version", "", release_part)
             ELSE IF remainder = <<>> THEN Ok(<<>>)
             ELSE parse_suffixes(remainder)

validate_python(version) ==
    IF version = <<>> THEN Err("Version string cannot be empty", "", <<>>)
    ELSE LET v == to_lowercase(version)
             p == Find(v, <<"!">>)
             epoch == Take(v, p - 1)
             v1 == IF p > 0 THEN Drop(v, p) ELSE v
             q == Find(v1, <<"+">>)
             local == Drop(v1, q)
             v2 == IF q > 0 THEN Take(v1, q - 1) ELSE v1
         IN  IF p > 0 /\ ~AllDigits(epoch) THEN Err("Invalid epoch", "", epoch)
             ELSE IF q > 0 /\ ~is_valid_local(local)
             THEN Err("Invalid local version", "", local)
             ELSE parse_main_version(v2)

IsSemverIdChar(c) == is_ascii_alphanumeric(c) \/ c = "-"

\* is_valid_semver_identifier without the test that a part is non-empty
is_valid_semver_identifier_no_empty_test(id) ==
    LET segs == Split(id, ".")
    IN  \A i \in 1..Len(segs) : \A k \in 1..Len(segs[i]) : IsSemverIdChar(segs[i][k])

is_valid_semver_identifier(id) ==
    LET segs == Split(id, ".")
    IN  \A i \in 1..Len(segs) :
            /\ segs[i] # <<>>
            /\ \A k \in 1..Len(segs[i]) : IsSemverIdChar(segs[i][k])

validate_javascript(version) ==
    IF version = <<>> THEN Err("Version string cannot be empty", "", <<>>)
    ELSE LET q == Find(version, <<"+">>)
             build == Drop(version, q)
             v1 == IF q > 0 THEN Take(version, q - 1) ELSE version
             h == Find(v1, <<"-">>)
             release == IF h > 0 THEN Take(v1, h - 1) ELSE v1
             pre == Drop(v1, h)
             parts == Split(release, ".")
         IN  IF q > 0 /\ (build = <<>> \/ ~is_valid_semver_identifier(build))
             THEN Err("Invalid build metadata", "", build)
             ELSE IF Len(parts) # 3 THEN Err("Invalid semver", "", release)
             ELSE IF FirstBadPart(parts) # 0
             THEN Err("Invalid version", ComponentNames[FirstBadPart(parts)],
                      parts[FirstBadPart(parts)])
             ELSE IF h > 0 /\ (pre = <<>> \/ ~is_valid_semver_identifier(pre))
             THEN Err("Invalid prerelease", "", pre)
             ELSE Ok(<<>>)

FileKinds == {"Any", "Simple", "Python", "Semver"}

validate_version(version, kind) ==
    CASE kind = "Any" -> Ok(<<>>)
      [] kind = "Simple" -> validate_simple(version)
      [] kind = "Python" -> validate_python(version)
      [] kind = "Semver" -> validate_javascript(version)

(***************************************************************************)
(* The Validator as a machine: a caller writes a version string, then      *)
(* hands it to validate_version with a FileKind.                           *)
(***************************************************************************)
\* how many pieces a caller appends to the string it starts from
MaxAppend == 2

\* the strings a caller starts from
VersionStarts ==
    { <<>>, <<"1">>, <<"1", ".", "0">>, <<"1", ".", "2", ".", "3">>,
      <<"1", ".", "2", ".", "3", ".", "4">>, <<".", "1", ".", "0">>,
      <<"1", ".", ".", "0">>, <<"a", ".", "b", ".", "c">>,
      <<"1", ".", "x", ".", "3">>, <<"+", "1", ".", "2", ".", "3">>,
      <<"!", "1", ".", "0">>, <<"1", "!", "1", ".", "0">>,
      <<"x", "!", "1", ".", "0">>,
      <<"4", "2", "9", "4", "9", "6", "7", "2", "9", "5", ".", "2", ".", "3">>,
      <<"4", "2", "9", "4", "9", "6", "7", "2", "9", "6", ".", "2", ".", "3">>,
      <<"1", ".", "0", "a", "1">>,
      <<"1", ".", "2", ".", "3", "-", "r", "c", ".", "1">> }

\* the pieces a caller appends
VersionPieces ==
    { <<"1">>, <<".">>, <<"a", "1">>, <<"r", "c">>,
      <<".", "p", "o", "s", "t">>, <<"p", "o", "s", "t", "1">>,
      <<".", "d", "e", "v", "1">>, <<"d", "e", "v">>, <<"-">>, <<"+">>,
      <<"x">>, <<"_">>, <<"B">> }

InitValidate ==
    /\ inp \in VersionStarts
    /\ pieces = 0
    /\ op = "input"
    /\ arg = "none"
    /\ res = NoResult
    /\ NoWorkflow

\* the caller appends one piece to the version string
AppendPiece(piece) ==
    /\ op = "input"
    /\ pieces < MaxAppend
    /\ inp' = inp \o piece
    /\ pieces' = pieces + 1
    /\ UNCHANGED <<op, arg, res>>
    /\ UNCHANGED workflow

\* validate_version(version, kind)
Validate(kind) ==
    /\ op = "input"
    /\ op' = "validate"
    /\ arg' = kind
    /\ res' = validate_version(inp, kind)
    /\ UNCHANGED <<inp, pieces>>
    /\ UNCHANGED workflow

Next ==
    \/ \E piece \in VersionPieces : AppendPiece(piece)
    \/ \E kind \in FileKinds : Validate(kind)

Spec == InitValidate /\ [][Next]_vars

(***************************************************************************)
(* bump.rs: the Decomposer (parse_version) and the Bumper                  *)
(***************************************************************************)
None == [some |-> FALSE, kind |-> "", num |-> Zero]

Some(kind, num) == [some |-> TRUE, kind |-> kind, num |-> num]

\* str::parse::<u32>().unwrap_or(0)
parse_or_zero(s) == IF parse_u32(s) = ParseErr THEN Zero ELSE parse_u32(s)

StripSuffix_dotted_only(version, dotted, bare) ==
    LET p == Find(version, dotted)
    IN  IF p > 0
        THEN [rest |-> Take(version, p - 1),
              num |-> Some("", parse_or_zero(Drop(version, p - 1 + Len(dotted))))]
        ELSE [rest |-> version, num |-> None]

\* a dev or post suffix: ".dev" is searched first, then "dev"; what follows the
\* marker to the end of the string is the number
StripSuffix(version, dotted, bare) ==
    LET p == Find(version, dotted)
        q == Find(version, bare)
    IN  IF p > 0
        THEN [rest |-> Take(version, p - 1),
              num |-> Some("", parse_or_zero(Drop(version, p - 1 + Len(dotted))))]
        ELSE IF q > 0
        THEN [rest |-> Take(version, q - 1),
              num |-> Some("", parse_or_zero(Drop(version, q - 1 + Len(bare))))]
        ELSE [rest |-> version, num |-> None]

\* the kind each entry of PreMarkers is normalized to
PreKinds == <<"alpha", "beta", "rc", "rc", "alpha", "beta", "rc">>

\* the marker scan: the first marker, in the order of PreMarkers, whose first
\* occurrence follows a digit or a dot
ScanMarkers(version) ==
    LET hit == {m \in 1..Len(PreMarkers) :
                   LET pos == Find(version, PreMarkers[m])
                   IN  pos > 1 /\ AtBoundary(version, pos)}
    IN  IF hit = {} THEN [release |-> version, pre |-> None]
        ELSE LET m == Min(hit)
                 pos == Find(version, PreMarkers[m])
                 after == Drop(version, pos - 1 + Len(PreMarkers[m]))
             IN  [release |-> Take(version, pos - 1),
                  pre |-> Some(PreKinds[m], parse_or_zero(Take(after, DigitRun(after))))]

JsKinds == << <<"a", "l", "p", "h", "a">>, <<"b", "e", "t", "a">>, <<"r", "c">> >>

JsKindNames == <<"alpha", "beta", "rc">>

ScanHyphen_no_dot_trim(scanned) ==
    LET pos == Find(scanned.release, <<"-">>)
        pre_part == Drop(scanned.release, pos)
        hit == {k \in 1..3 : starts_with(pre_part, JsKinds[k])}
    IN  IF pos = 0 THEN scanned
        ELSE [release |-> Take(scanned.release, pos - 1),
              pre |-> IF hit = {} THEN scanned.pre
                      ELSE LET k == Min(hit)
                           IN  Some(JsKindNames[k],
                                    parse_or_zero(Drop(pre_part, Len(JsKinds[k]))))]

\* the JS-style pre-release (1.0.0-alpha.1): the text after the first '-'
ScanHyphen(scanned) ==
    LET pos == Find(scanned.release, <<"-">>)
        pre_part == Drop(scanned.release, pos)
        hit == {k \in 1..3 : starts_with(pre_part, JsKinds[k])}
    IN  IF pos = 0 THEN scanned
        ELSE [release |-> Take(scanned.release, pos - 1),
              pre |-> IF hit = {} THEN scanned.pre
                      ELSE LET k == Min(hit)
                               num_part == trim_start_matches(
                                               Drop(pre_part, Len(JsKinds[k])), <<".">>)
                           IN  Some(JsKindNames[k], parse_or_zero(num_part))]

PartOrZero_default_one(parts, i) == IF i <= Len(parts) THEN parts[i] ELSE One

\* parts.get(i).unwrap_or(&"0")
PartOrZero(parts, i) == IF i <= Len(parts) THEN parts[i] ELSE Zero

ParseFailed(why, part) ==
    [ok |-> FALSE, why |-> why, val |-> part,
     major |-> Zero, minor |-> Zero, patch |-> Zero,
     prerelease |-> None, post |-> None, dev |-> None]

\* the one element of a one-element set: Only({F(x) : x \in {e}}) is F(e) with
\* e evaluated once
Only(S) == CHOOSE x \in S : TRUE

\* the text the suffixes are searched in: lower case, epoch and local part removed
StripEpochLocal(raw) ==
    Only({ IF Find(v1, <<"+">>) > 0 THEN Take(v1, Find(v1, <<"+">>) - 1) ELSE v1 :
           v1 \in {Drop(to_lowercase(raw), Find(to_lowercase(raw), <<"!">>))} })

ParseRelease_unwrap_or_zero(parts, pre, post, dev) ==
    [ok |-> TRUE, why |-> "", val |-> <<>>,
     major |-> parse_or_zero(parts[1]),
     minor |-> parse_or_zero(PartOrZero(parts, 2)),
     patch |-> parse_or_zero(PartOrZero(parts, 3)),
     prerelease |-> pre, post |-> post, dev |-> dev]

\* major, minor and patch from the release text
ParseRelease(parts, pre, post, dev) ==
    IF parse_u32(parts[1]) = ParseErr
    THEN ParseFailed("Invalid major version", parts[1])
    ELSE IF parse_u32(PartOrZero(parts, 2)) = ParseErr
    THEN ParseFailed("Invalid minor version", PartOrZero(parts, 2))
    ELSE IF parse_u32(PartOrZero(parts, 3)) = ParseErr
    THEN ParseFailed("Invalid patch version", PartOrZero(parts, 3))
    ELSE [ok |-> TRUE, why |-> "", val |-> <<>>,
          major |-> parse_u32(parts[1]),
          minor |-> parse_u32(PartOrZero(parts, 2)),
          patch |-> parse_u32(PartOrZero(parts, 3)),
          prerelease |-> pre, post |-> post, dev |-> dev]

\* the pre-release and the release, once dev and post are stripped
ParsePre(rest, post, dev) ==
    Only({ Only({ ParseRelease(Split(js.release, "."), js.pre, post, dev) :
                  js \in {ScanHyphen(scanned)} }) :
           scanned \in {ScanMarkers(rest)} })

parse_version(raw) ==
    Only({ Only({ ParsePre(p.rest, p.num, d.num) :
                  p \in {StripSuffix(d.rest, DotPost, BarePost)} }) :
           d \in {StripSuffix(StripEpochLocal(raw), DotDev, BareDev)} })

prerelease_prefix_kind_name(kind) ==
    CASE kind = "alpha" -> <<"a", "l", "p", "h", "a">>
      [] kind = "beta" -> <<"b", "e", "t", "a">>
      [] kind = "rc" -> <<"r", "c">>
      [] OTHER -> <<>>

prerelease_prefix(kind) ==
    CASE kind = "alpha" -> <<"a">>
      [] kind = "beta" -> <<"b">>
      [] kind = "rc" -> <<"r", "c">>
      [] OTHER -> <<>>

Keywords == {"major", "minor", "patch", "release", "alpha", "beta", "rc", "post", "dev"}

is_version_string(s) == s \notin Keywords

\* n + 1 on u32 wraps to 0 at u32::MAX when the build has no overflow checks
WrappingSucc(n) == IF n = U32MaxText THEN Zero ELSE Succ(n)

\* n + 1 on u32 panics at u32::MAX when the build has overflow checks
Panic == Err("panicked: attempt to add with overflow", "", <<>>)

Dot == <<".">>

\* format!("{}.{}.{}", major, minor, patch)
Base(parsed) == parsed.major \o Dot \o parsed.minor \o Dot \o parsed.patch

\* the pre-release as format!("{}{}", prerelease_prefix(kind), n), "" for None
PreText(parsed) ==
    IF parsed.prerelease.some
    THEN prerelease_prefix(parsed.prerelease.kind) \o parsed.prerelease.num
    ELSE <<>>

\* the counter the component's arm adds 1 to, <<>> when the arm adds nothing
\* (the patch arm with a suffix, the release arm) or starts a counter at 1
Operand(parsed, component) ==
    CASE component = "major" -> parsed.major
      [] component = "minor" -> parsed.minor
      [] component = "patch" ->
             IF parsed.prerelease.some \/ parsed.post.some \/ parsed.dev.some
             THEN <<>>
             ELSE parsed.patch
      [] component \in {"alpha", "beta", "rc"} ->
             IF parsed.prerelease.some /\ parsed.prerelease.kind = component
             THEN parsed.prerelease.num
             ELSE <<>>
      [] component = "post" -> IF parsed.post.some THEN parsed.post.num ELSE <<>>
      [] component = "dev" -> IF parsed.dev.some THEN parsed.dev.num ELSE <<>>
      [] OTHER -> <<>>

\* n + 1 where the arm adds, 1 where it starts a counter
Counter(operand) == IF operand = <<>> THEN One ELSE WrappingSucc(operand)

\* the error of the match's last arm
InvalidComponent(component) ==
    Err("Invalid component. Use major, minor, patch, release, alpha, beta, rc, post, or dev",
        component, <<>>)

\* the match on component, for a current version that parsed and a counter n
Formatted(parsed, component, n) ==
    CASE component = "major" -> Ok(n \o Dot \o Zero \o Dot \o Zero)
      [] component = "minor" -> Ok(parsed.major \o Dot \o n \o Dot \o Zero)
      [] component = "patch" ->
             IF parsed.prerelease.some \/ parsed.post.some \/ parsed.dev.some
             THEN Ok(Base(parsed))
             ELSE Ok(parsed.major \o Dot \o parsed.minor \o Dot \o n)
      [] component = "release" -> Ok(Base(parsed))
      [] component \in {"alpha", "beta", "rc"} ->
             Ok(Base(parsed) \o prerelease_prefix(component) \o n)
      [] component = "post" -> Ok(Base(parsed) \o PreText(parsed) \o DotPost \o n)
      [] component = "dev" ->
             Ok(Base(parsed) \o PreText(parsed)
                    \o (IF parsed.post.some THEN DotPost \o parsed.post.num ELSE <<>>)
                    \o DotDev \o n)
      [] OTHER -> InvalidComponent(component)

\* the arm of a parsed version: the addition panics at u32::MAX in a build with
\* overflow checks and wraps in one without
NewVersion(parsed, component, overflow_checks) ==
    IF Operand(parsed, component) = U32MaxText /\ overflow_checks
    THEN Panic
    ELSE Formatted(parsed, component, Counter(Operand(parsed, component)))

\* compute_new_version(current, component); overflow_checks tells whether the
\* build checks integer overflow (debug) or wraps (release)
compute_new_version(current, component, overflow_checks) ==
    Only({ IF parsed.ok
           THEN NewVersion(parsed, component, overflow_checks)
           ELSE Err(parsed.why, "", parsed.val) :
           parsed \in {parse_version(current)} })

(***************************************************************************)
(* The Bumper as a machine: a caller writes the current version, then asks *)
(* for the next version by a component name.                               *)
(***************************************************************************)
\* how many suffix pieces a caller appends to the version it starts from
MaxSuffix == 2

\* the current versions a caller starts from
CurrentStarts ==
    { <<"1", ".", "2", ".", "3">>, <<"1", ".", "2">>, <<"1">>,
      <<"1", ".", "2", ".", "3", ".", "4">>,
      <<"0", "1", ".", "2", ".", "3">>,
      <<"2", "!", "1", ".", "2", ".", "3">>, <<"x", ".", "2", ".", "3">>,
      <<"1", ".", "x", ".", "3">>, <<"1", ".", "2", ".", "x">>, <<>>,
      <<"4", "2", "9", "4", "9", "6", "7", "2", "9", "5", ".", "2", ".", "3">>,
      <<"1", ".", "4", "2", "9", "4", "9", "6", "7", "2", "9", "5", ".", "3">>,
      <<"1", ".", "2", ".", "4", "2", "9", "4", "9", "6", "7", "2", "9", "5">>,
      <<"1", ".", "2", ".", "3", "a", "4", "2", "9", "4", "9", "6", "7", "2", "9", "5">>,
      <<"1", ".", "2", ".", "3", ".", "p", "o", "s", "t",
        "4", "2", "9", "4", "9", "6", "7", "2", "9", "5">>,
      <<"1", ".", "2", ".", "3", ".", "d", "e", "v",
        "4", "2", "9", "4", "9", "6", "7", "2", "9", "5">> }

\* the suffix pieces a caller appends
SuffixPieces ==
    { <<"a", "1">>, <<"a", "l", "p", "h", "a">>, <<"b", "2">>,
      <<"b", "e", "t", "a", "1">>, <<"r", "c", "1">>, <<"c">>,
      <<"p", "r", "e", "v", "i", "e", "w", "3">>,
      <<".", "p", "o", "s", "t", "1">>, <<"p", "o", "s", "t">>,
      <<".", "d", "e", "v", "1">>, <<"d", "e", "v">>,
      <<"-", "a", "l", "p", "h", "a", ".", "1">>, <<"-", "r", "c">>,
      <<"-", "b", "e", "t", "a", ".", "2">>,
      <<"-", "r", "c", ".", "4", "2", "9", "4", "9", "6", "7", "2", "9", "5">>,
      <<"+", "x">>, <<"A", "1">> }

\* the component names a caller asks for: the keywords and one unknown word
Components == Keywords \cup {"bogus"}

InitBump ==
    /\ inp \in CurrentStarts
    /\ pieces = 0
    /\ op = "input"
    /\ arg = "none"
    /\ res = NoResult
    /\ NoWorkflow

\* the caller appends one suffix piece to the current version
AppendSuffix(piece) ==
    /\ op = "input"
    /\ pieces < MaxSuffix
    /\ inp' = inp \o piece
    /\ pieces' = pieces + 1
    /\ UNCHANGED <<op, arg, res>>
    /\ UNCHANGED workflow

\* compute_new_version(current, component), in a build with or without
\* overflow checks
Bump(component) ==
    /\ op = "input"
    /\ op' = "bump"
    /\ arg' = component
    /\ \E overflow_checks \in BOOLEAN :
           res' = compute_new_version(inp, component, overflow_checks)
    /\ UNCHANGED <<inp, pieces>>
    /\ UNCHANGED workflow

NextBump ==
    \/ \E piece \in SuffixPieces : AppendSuffix(piece)
    \/ \E component \in Components : Bump(component)

SpecBump == InitBump /\ [][NextBump]_vars

(***************************************************************************)
(* cast.rs: the Caster                                                     *)
(***************************************************************************)
CastMarkers ==
    << <<"a">>, <<"b">>, <<"c">>, <<"a", "l", "p", "h", "a">>, <<"b", "e", "t", "a">>,
       <<"p", "r", "e", "v", "i", "e", "w">>, <<"r", "c">>, DotPost, DotDev, <<"-">> >>

\* the byte offset where the release ends: the earliest first occurrence of a
\* marker that stands at the start, after a dot or after a digit
find_release_end(version) ==
    LET starts == {Find(version, CastMarkers[m]) : m \in 1..Len(CastMarkers)}
        hit == {pos \in starts : pos > 0 /\ AtBoundary(version, pos)}
    IN  IF hit = {} THEN Len(version) ELSE Min(hit) - 1

\* lower case, then without the epoch (up to the first '!') and the local
\* part (from the first '+')
CastStripped(raw) ==
    Only({ IF Find(v1, <<"+">>) > 0 THEN Take(v1, Find(v1, <<"+">>) - 1) ELSE v1 :
           v1 \in {Drop(to_lowercase(raw), Find(to_lowercase(raw), <<"!">>))} })

\* the parts that do not parse as u32, by position
BadParts(parts) == {i \in 1..Len(parts) : parse_u32(parts[i]) = ParseErr}

CastBase_unpadded(parts) ==
    parts[1] \o (IF Len(parts) > 1 THEN Dot \o parts[2] ELSE <<>>)
             \o (IF Len(parts) > 2 THEN Dot \o parts[3] ELSE <<>>)

\* format!("{major}.{minor}.{patch}") of the parts as written
CastBase(parts) == parts[1] \o Dot \o PartOrZero(parts, 2) \o Dot \o PartOrZero(parts, 3)

CastFailed(target, part) == Err("Cannot cast: invalid part", target, part)

SimpleOfParts(parts) ==
    IF BadParts(parts) # {}
    THEN CastFailed("simple version", parts[Min(BadParts(parts))])
    ELSE Ok(CastBase(parts))

cast_to_simple(version) ==
    Only({ SimpleOfParts(Split(Take(v, find_release_end(v)), ".")) :
           v \in {CastStripped(version)} })

cast_to_python(version) == Ok(version)

\* s.split(p).next(): what precedes the first occurrence of p
BeforeFirst(s, p) == IF Find(s, p) > 0 THEN Take(s, Find(s, p) - 1) ELSE s

\* trim_start_matches(|c| !c.is_ascii_digit())
TrimNonDigits(s) ==
    LET digits == {i \in 1..Len(s) : is_ascii_digit(s[i])}
    IN  IF digits = {} THEN <<>> ELSE Drop(s, Min(digits) - 1)

\* the prefixes tried on the suffix, in order, and the kind each is written as
SemverPrefixes ==
    << <<"a", "l", "p", "h", "a">>, <<"a">>, <<"b", "e", "t", "a">>, <<"b">>,
       <<"r", "c">>, <<"c">>, <<"p", "r", "e", "v", "i", "e", "w">> >>

SemverKinds ==
    << <<"a", "l", "p", "h", "a">>, <<"a", "l", "p", "h", "a">>, <<"b", "e", "t", "a">>,
       <<"b", "e", "t", "a">>, <<"r", "c">>, <<"r", "c">>, <<"r", "c">> >>

\* the pre-release in JS form for a suffix without its .post and .dev part,
\* nothing for an empty or unknown suffix
js_prerelease(suffix) ==
    LET hit == {k \in 1..Len(SemverPrefixes) : starts_with(suffix, SemverPrefixes[k])}
    IN  IF hit = {} THEN <<>>
        ELSE <<"-">> \o SemverKinds[Min(hit)] \o Dot
                 \o TrimNonDigits(Drop(suffix, Len(SemverPrefixes[Min(hit)])))

SemverOfParts(parts, suffix) ==
    IF BadParts(parts) # {}
    THEN CastFailed("semver", parts[Min(BadParts(parts))])
    ELSE Ok(CastBase(parts) \o js_prerelease(BeforeFirst(BeforeFirst(suffix, DotPost), DotDev)))

cast_to_semver(version) ==
    Only({ Only({ SemverOfParts(Split(Take(v, release_end), "."), Drop(v, release_end)) :
                  release_end \in {find_release_end(v)} }) :
           v \in {CastStripped(version)} })

cast_version(version, target_kind) ==
    CASE target_kind = "Any" -> Ok(version)
      [] target_kind = "Simple" -> cast_to_simple(version)
      [] target_kind = "Python" -> cast_to_python(version)
      [] target_kind = "Semver" -> cast_to_semver(version)

(***************************************************************************)
(* The Caster as a machine: a caller writes a version string, then hands   *)
(* it to cast_version with the FileKind to cast to.                        *)
(***************************************************************************)
\* how many pieces a caller appends to the version it casts
MaxCastPieces == 2

\* the versions a caller starts from
CastStarts ==
    { <<>>, <<"1">>, <<"1", ".", "2">>, <<"1", ".", "2", ".", "3">>,
      <<"1", ".", "2", ".", "3", ".", "4">>, <<"0", "1", ".", "2", ".", "3">>,
      <<"+", "1", ".", "2", ".", "3">>, <<"1", "!", "1", ".", "2", ".", "3">>,
      <<"2", "!", "1", ".", "2">>,
      <<"4", "2", "9", "4", "9", "6", "7", "2", "9", "5", ".", "2", ".", "3">>,
      <<"4", "2", "9", "4", "9", "6", "7", "2", "9", "6", ".", "2", ".", "3">>,
      <<"1", ".", "x", ".", "3">>, <<"1", ".", ".", "3">>,
      <<"1", ".", "2", ".", "3", "-", "a", "l", "p", "h", "a", ".", "1">>,
      <<"1", "!", "1", ".", "2", ".", "3", "a", "1", ".", "p", "o", "s", "t", "1",
        ".", "d", "e", "v", "1", "+", "l", "o", "c", "a", "l">> }

\* the pieces a caller appends
CastPieces ==
    { <<"a", "1">>, <<"a", "l", "p", "h", "a", "1">>, <<"b">>, <<"b", "e", "t", "a", "2">>,
      <<"r", "c", "1">>, <<"c", "1">>, <<"p", "r", "e", "v", "i", "e", "w", "3">>,
      <<".", "p", "o", "s", "t", "1">>, <<"p", "o", "s", "t", "1">>,
      <<".", "d", "e", "v", "1">>, <<"d", "e", "v", "1">>,
      <<"-", "r", "c", ".", "1">>, <<"-">>, <<"+", "x">>, <<"A", "1">>,
      <<"x">>, <<".">>, <<"1">> }

InitCast ==
    /\ inp \in CastStarts
    /\ pieces = 0
    /\ op = "input"
    /\ arg = "none"
    /\ res = NoResult
    /\ NoWorkflow

\* the caller appends one piece to the version
AppendCastPiece(piece) ==
    /\ op = "input"
    /\ pieces < MaxCastPieces
    /\ inp' = inp \o piece
    /\ pieces' = pieces + 1
    /\ UNCHANGED <<op, arg, res>>
    /\ UNCHANGED workflow

\* cast_version(version, target_kind)
Cast(target_kind) ==
    /\ op = "input"
    /\ op' = "cast"
    /\ arg' = target_kind
    /\ res' = cast_version(inp, target_kind)
    /\ UNCHANGED <<inp, pieces>>
    /\ UNCHANGED workflow

NextCast ==
    \/ \E piece \in CastPieces : AppendCastPiece(piece)
    \/ \E target_kind \in FileKinds : Cast(target_kind)

SpecCast == InitCast /\ [][NextCast]_vars

(***************************************************************************)
(* bump.rs: the version written to one file (get_file_version)             *)
(***************************************************************************)
OnInvalidVersion == {"Error", "Cast"}

\* what get_file_version returns, and the calls it made on the way
Returned(result, made) == [result |-> result, calls |-> made]

get_file_version_no_revalidation(version, kind, on_invalid) ==
    IF validate_version(version, kind).ok
    THEN Returned(Ok(version), <<"validate_version">>)
    ELSE IF on_invalid = "Error"
    THEN Returned(Err("Invalid version for file", kind, version),
                  <<"validate_version", "validate_version">>)
    ELSE Only({ IF ~casted.ok
                THEN Returned(Err("Cannot cast version for file", kind, version),
                              <<"validate_version", "cast_version">>)
                ELSE Returned(Ok(casted.val), <<"validate_version", "cast_version">>) :
                casted \in {cast_version(version, kind)} })

get_file_version(version, kind, on_invalid) ==
    IF validate_version(version, kind).ok
    THEN Returned(Ok(version), <<"validate_version">>)
    ELSE IF on_invalid = "Error"
    THEN Returned(Err("Invalid version for file", kind, version),
                  <<"validate_version", "validate_version">>)
    ELSE Only({ IF ~casted.ok
                THEN Returned(Err("Cannot cast version for file", kind, version),
                              <<"validate_version", "cast_version">>)
                ELSE IF ~validate_version(casted.val, kind).ok
                THEN Returned(Err("Casted version is still invalid for file", kind, casted.val),
                              <<"validate_version", "cast_version", "validate_version">>)
                ELSE Returned(Ok(casted.val),
                              <<"validate_version", "cast_version", "validate_version">>) :
                casted \in {cast_version(version, kind)} })

\* get_file_version(version, kind, on_invalid, src) for one file of the config
GetFileVersion(kind, on_invalid) ==
    /\ op = "input"
    /\ op' = "get_file_version"
    /\ arg' = kind
    /\ policy' = on_invalid
    /\ res' = get_file_version(inp, kind, on_invalid).result
    /\ calls' = get_file_version(inp, kind, on_invalid).calls
    /\ UNCHANGED <<inp, pieces, changes, cursor>>

NextFile ==
    \/ \E piece \in CastPieces : AppendCastPiece(piece)
    \/ \E kind \in FileKinds, on_invalid \in OnInvalidVersion : GetFileVersion(kind, on_invalid)

SpecFile == InitCast /\ [][NextFile]_vars

(***************************************************************************)
(* git.rs: run_git_actions.  Each git command is one step: calls holds the *)
(* commands issued so far, each with its arguments and how it ended.       *)
(***************************************************************************)
GitActions == {"Disabled", "Commit", "CommitAndTag", "CommitTagAndPush"}

\* how a spawned git command ends: exit status 0, another exit status, or
\* the process could not be started
GitOutcomes == {"success", "failure", "spawn_error"}

\* the old and new versions the workflow hands to run_git_actions
GitVersions ==
    { <<"1", ".", "2", ".", "3">>, <<"1", ".", "2", ".", "4">>,
      <<"2", ".", "0", ".", "0">>, <<"1", ".", "2", ".", "3", "a", "1">> }

git_add_all == <<"add", "--all">>

git_commit(old_version, new_version) ==
    <<"commit", "-m", <<"Bump version from ", old_version, " to ", new_version>> >>

git_tag(version) == <<"tag", "-a", version, "-m", <<"Release ", version>> >>

git_push == <<"push">>

git_push_tag(version) == <<"push", "origin", version>>

\* the commands of an action, in the order the match arm issues them
GitCommands(action, old_version, new_version) ==
    CASE action = "Disabled" -> <<>>
      [] action = "Commit" -> <<git_add_all, git_commit(old_version, new_version)>>
      [] action = "CommitAndTag" ->
             <<git_add_all, git_commit(old_version, new_version), git_tag(new_version)>>
      [] action = "CommitTagAndPush" ->
             <<git_add_all, git_commit(old_version, new_version), git_tag(new_version),
               git_push, git_push_tag(new_version)>>

\* git(args): Ok(()) on exit status 0, else an error that names the command
git(args, outcome) ==
    CASE outcome = "success" -> Ok(<<>>)
      [] outcome = "failure" -> Err("git failed", args[1], <<>>)
      [] outcome = "spawn_error" -> Err("Failed to run git", "", <<>>)

InitGit ==
    /\ inp \in GitVersions \X GitVersions
    /\ pieces = 0
    /\ op = "input"
    /\ arg = "none"
    /\ res = NoResult
    /\ NoWorkflow

\* run_git_actions(action, old_version, new_version) is entered; Disabled
\* returns Ok(()) at once
RunGitActions(action) ==
    /\ op = "input"
    /\ arg' = action
    /\ IF GitCommands(action, inp[1], inp[2]) = <<>>
       THEN op' = "done" /\ res' = Ok(<<>>)
       ELSE op' = "run_git_actions" /\ res' = res
    /\ UNCHANGED <<inp, pieces, calls, policy, changes, cursor>>

GitStep_ignoring_failure(outcome) ==
    /\ op = "run_git_actions"
    /\ LET plan == GitCommands(arg, inp[1], inp[2])
           args == plan[Len(calls) + 1]
       IN  /\ calls' = Append(calls, [args |-> args, outcome |-> outcome])
           /\ IF Len(calls) + 1 = Len(plan)
              THEN op' = "done" /\ res' = Ok(<<>>)
              ELSE op' = op /\ res' = res
    /\ UNCHANGED <<inp, pieces, arg, policy, changes, cursor>>

\* the next command of the arm runs; `?` returns its error, and the arm
\* returns Ok(()) after its last command
GitStep(outcome) ==
    /\ op = "run_git_actions"
    /\ LET plan == GitCommands(arg, inp[1], inp[2])
           args == plan[Len(calls) + 1]
       IN  /\ calls' = Append(calls, [args |-> args, outcome |-> outcome])
           /\ IF outcome # "success"
              THEN op' = "done" /\ res' = git(args, outcome)
              ELSE IF Len(calls) + 1 = Len(plan)
              THEN op' = "done" /\ res' = Ok(<<>>)
              ELSE op' = op /\ res' = res
    /\ UNCHANGED <<inp, pieces, arg, policy, changes, cursor>>

NextGit ==
    \/ \E action \in GitActions : RunGitActions(action)
    \/ \E outcome \in GitOutcomes : GitStep(outcome)

SpecGit == InitGit /\ [][NextGit]_vars

(***************************************************************************)
(* tui.rs: select_changes and the event loop of run_tui.  changes holds    *)
(* each change's selected flag, cursor the list state's selected index     *)
(* (NoneSelected for None), pieces the number of events read, arg the      *)
(* event read last.                                                        *)
(***************************************************************************)
MaxChanges == 3

MaxEvents == 3

NoneSelected == -1

KeyCodes == {"q", "Esc", "Enter", "Up", "k", "Down", "j", " ", "a", "n", "x", "Tab"}

KeyEventKinds == {"Press", "Repeat", "Release"}

NoEvent == [type |-> "none", code |-> "", kind |-> ""]

Events ==
    {[type |-> "Key", code |-> code, kind |-> kind] : code \in KeyCodes, kind \in KeyEventKinds}
        \cup {[type |-> "Resize", code |-> "", kind |-> ""]}

IoError == Err("io error", "", <<>>)

\* state.selected().unwrap_or(0)
SelectedOrZero(selected) == IF selected = NoneSelected THEN 0 ELSE selected

\* KeyCode::Up | KeyCode::Char('k')
MoveUp(i, len) == IF i = 0 THEN len - 1 ELSE i - 1

MoveDown_no_wrap(i, len) == i + 1

\* KeyCode::Down | KeyCode::Char('j')
MoveDown(i, len) == IF i >= len - 1 THEN 0 ELSE i + 1

\* KeyCode::Char(' '): nothing without a selection; changes[i] is a bounds-
\* checked index (its panic is the result "index out of bounds")
Toggle(flags, selected) ==
    IF selected = NoneSelected THEN flags
    ELSE [k \in 1..Len(flags) |-> IF k = selected + 1 THEN ~flags[k] ELSE flags[k]]

SetAll(flags, value) == [k \in 1..Len(flags) |-> value]

InitTui ==
    /\ inp = <<>>
    /\ pieces = 0
    /\ op = "input"
    /\ arg = NoEvent
    /\ res = NoResult
    /\ calls = <<>>
    /\ policy = "Error"
    /\ changes \in UNION {[1..n -> BOOLEAN] : n \in 0..MaxChanges}
    /\ cursor = NoneSelected

\* select_changes up to the call of run_tui: an empty list returns Ok(true);
\* otherwise the terminal is set up (which may fail) and row 0 is selected
SelectChanges(terminal_ok) ==
    /\ op = "input"
    /\ IF changes = <<>>
       THEN op' = "done" /\ res' = Ok(<<TRUE>>) /\ cursor' = cursor
       ELSE IF ~terminal_ok
       THEN op' = "done" /\ res' = IoError /\ cursor' = cursor
       ELSE op' = "run_tui" /\ res' = res /\ cursor' = 0
    /\ UNCHANGED <<inp, pieces, arg, calls, policy, changes>>

\* one turn of the loop whose draw or event::read fails: `?` returns the error
TuiIoError ==
    /\ op = "run_tui"
    /\ op' = "teardown"
    /\ res' = IoError
    /\ UNCHANGED <<inp, pieces, arg, calls, policy, changes, cursor>>

\* one turn of the loop: draw, read an event, and match on the key
TuiEvent(event) ==
    /\ op = "run_tui"
    /\ pieces < MaxEvents
    /\ pieces' = pieces + 1
    /\ arg' = event
    /\ IF event.type # "Key" \/ event.kind # "Press"
       THEN UNCHANGED <<op, res, changes, cursor>>
       ELSE CASE event.code \in {"q", "Esc"} ->
                     op' = "teardown" /\ res' = Ok(<<FALSE>>) /\ UNCHANGED <<changes, cursor>>
              [] event.code = "Enter" ->
                     op' = "teardown" /\ res' = Ok(<<TRUE>>) /\ UNCHANGED <<changes, cursor>>
              [] event.code \in {"Up", "k"} ->
                     /\ cursor' = MoveUp(SelectedOrZero(cursor), Len(changes))
                     /\ UNCHANGED <<op, res, changes>>
              [] event.code \in {"Down", "j"} ->
                     /\ cursor' = MoveDown(SelectedOrZero(cursor), Len(changes))
                     /\ UNCHANGED <<op, res, changes>>
              [] event.code = " " ->
                     IF cursor # NoneSelected /\ cursor >= Len(changes)
                     THEN op' = "done" /\ res' = Err("index out of bounds", "", <<>>)
                          /\ UNCHANGED <<changes, cursor>>
                     ELSE changes' = Toggle(changes, cursor) /\ UNCHANGED <<op, res, cursor>>
              [] event.code = "a" ->
                     changes' = SetAll(changes, TRUE) /\ UNCHANGED <<op, res, cursor>>
              [] event.code = "n" ->
                     changes' = SetAll(changes, FALSE) /\ UNCHANGED <<op, res, cursor>>
              [] OTHER -> UNCHANGED <<op, res, changes, cursor>>
    /\ UNCHANGED <<inp, calls, policy>>

\* select_changes after run_tui: the terminal is restored (which may fail)
\* and the loop's result is returned
RestoreTerminal(terminal_ok) ==
    /\ op = "teardown"
    /\ op' = "done"
    /\ res' = IF terminal_ok THEN res ELSE IoError
    /\ UNCHANGED <<inp, pieces, arg, calls, policy, changes, cursor>>

NextTui ==
    \/ \E terminal_ok \in BOOLEAN : SelectChanges(terminal_ok)
    \/ TuiIoError
    \/ \E event \in Events : TuiEvent(event)
    \/ \E terminal_ok \in BOOLEAN : RestoreTerminal(terminal_ok)

SpecTui == InitTui /\ [][NextTui]_vars

(***************************************************************************)
(* schema.rs: GitConfig::validate over the configured list of git actions  *)
(***************************************************************************)
MaxActions == 4

\* enum Action, by its kebab-case names
Actions == {"add-all", "branch", "commit", "tag", "push", "pr"}

default_actions == <<"add-all", "commit", "tag">>

\* self.actions.contains(&action)
has(actions, action) == \E k \in 1..Len(actions) : actions[k] = action

validate_allowing_tag_with_branch(actions) ==
    IF has(actions, "tag") /\ ~has(actions, "commit")
    THEN Err("git action 'tag' requires 'commit'", "", <<>>)
    ELSE IF has(actions, "push") /\ ~has(actions, "commit")
    THEN Err("git action 'push' requires 'commit'", "", <<>>)
    ELSE IF has(actions, "pr") /\ ~has(actions, "push")
    THEN Err("git action 'pr' requires 'push'", "", <<>>)
    ELSE IF has(actions, "pr") /\ ~has(actions, "branch")
    THEN Err("git action 'pr' requires 'branch'", "", <<>>)
    ELSE Ok(<<>>)

validate(actions) ==
    IF has(actions, "tag") /\ ~has(actions, "commit")
    THEN Err("git action 'tag' requires 'commit'", "", <<>>)
    ELSE IF has(actions, "push") /\ ~has(actions, "commit")
    THEN Err("git action 'push' requires 'commit'", "", <<>>)
    ELSE IF has(actions, "pr") /\ ~has(actions, "push")
    THEN Err("git action 'pr' requires 'push'", "", <<>>)
    ELSE IF has(actions, "pr") /\ ~has(actions, "branch")
    THEN Err("git action 'pr' requires 'branch'", "", <<>>)
    ELSE IF has(actions, "tag") /\ has(actions, "branch")
    THEN Err("git actions 'tag' and 'branch' cannot coexist", "", <<>>)
    ELSE Ok(<<>>)

\* a configuration starts from the default list or from an empty one
InitConfig ==
    /\ inp \in {<<>>, default_actions}
    /\ pieces = 0
    /\ op = "input"
    /\ arg = "none"
    /\ res = NoResult
    /\ NoWorkflow

AppendAction(action) ==
    /\ op = "input"
    /\ pieces < MaxActions
    /\ inp' = Append(inp, action)
    /\ pieces' = pieces + 1
    /\ UNCHANGED <<op, arg, res, calls, policy, changes, cursor>>

ValidateConfig ==
    /\ op = "input"
    /\ op' = "validate"
    /\ res' = validate(inp)
    /\ UNCHANGED <<inp, pieces, arg, calls, policy, changes, cursor>>

NextConfig ==
    \/ \E action \in Actions : AppendAction(action)
    \/ ValidateConfig

SpecConfig == InitConfig /\ [][NextConfig]_vars

(***************************************************************************)
(* The grammars, written from their descriptions                           *)
(***************************************************************************)
Validated(kind) == op = "validate" /\ arg = kind

Has(s, c) == \E i \in 1..Len(s) : s[i] = c

\* a non-empty run of ASCII digits
DigitRunText(s) == s # <<>> /\ AllDigits(s)

\* a non-negative integer written in digits only, of value at most 4294967295
Numeral(s) == DigitRunText(s) /\ ~NumLess(U32MaxText, Canonical(s))

\* dot-separated non-empty segments of characters of the set chars
DotSegments(s, chars) ==
    /\ s # <<>>
    /\ s[1] # "." /\ s[Len(s)] # "."
    /\ \A i \in 1..(Len(s) - 1) : ~(s[i] = "." /\ s[i + 1] = ".")
    /\ \A i \in 1..Len(s) : s[i] = "." \/ s[i] \in chars

Dots(s) == Cardinality({i \in 1..Len(s) : s[i] = "."})

\* one or more dot-separated digit segments
ReleaseShape(s) == DotSegments(s, DigitSet)

\* a component of a three-component release: a digit run, of value at most
\* 4294967295 when limited
Component(c, limited) == IF limited THEN Numeral(c) ELSE DigitRunText(c)

\* exactly three dot-separated components
ThreeComponents(s, limited) ==
    /\ Dots(s) = 2
    /\ \E i, j \in {k \in 1..Len(s) : s[k] = "."} :
           /\ i < j
           /\ Component(Take(s, i - 1), limited)
           /\ Component(SubSeq(s, i + 1, j - 1), limited)
           /\ Component(Drop(s, j), limited)

\* the characters of a pre-release or build identifier
SemverIdChars == AlphanumericSet \cup {"-"}

\* R[-P][+B] with R three components
SemverShape(s, limited) ==
    \E i, j \in 0..Len(s) :
        /\ i <= j
        /\ ThreeComponents(Take(s, i), limited)
        /\ LET pre == SubSeq(s, i + 1, j)
               build == Drop(s, j)
           IN  /\ pre = <<>> \/ (pre[1] = "-" /\ DotSegments(Drop(pre, 1), SemverIdChars))
               /\ build = <<>>
                      \/ (build[1] = "+" /\ DotSegments(Drop(build, 1), SemverIdChars))

NumeralRelease(r) == ThreeComponents(r, TRUE)

\* a marker followed by digits only
MarkerThenDigits(t, marker) == starts_with(t, marker) /\ AllDigits(Drop(t, Len(marker)))

PreShape(t) == \E m \in 1..Len(PreMarkers) : MarkerThenDigits(t, PreMarkers[m])

PostShape(t) == MarkerThenDigits(t, DotPost) \/ MarkerThenDigits(t, BarePost)

DevShape(t) == MarkerThenDigits(t, DotDev) \/ MarkerThenDigits(t, BareDev)

\* at most one pre-release, then at most one post-release, then at most one dev-release
SuffixShape(t) ==
    \E i, j \in 0..Len(t) :
        /\ i <= j
        /\ i = 0 \/ PreShape(Take(t, i))
        /\ i = j \/ PostShape(SubSeq(t, i + 1, j))
        /\ j = Len(t) \/ DevShape(Drop(t, j))

\* a release followed by a well-formed suffix
ExtendedBodyShape(b) ==
    \E r \in 1..Len(b) : ReleaseShape(Take(b, r)) /\ SuffixShape(Drop(b, r))

\* the text validated as release and suffixes: lower case, without epoch and local part
AfterEpoch(s) == Drop(to_lowercase(s), Find(to_lowercase(s), <<"!">>))

BeforeLocal(s) == IF Has(s, "+") THEN Take(s, Find(s, <<"+">>) - 1) ELSE s

Body(s) == BeforeLocal(AfterEpoch(s))

IsSuffixOf(t, s) == Len(t) <= Len(s) /\ Drop(s, Len(s) - Len(t)) = t

(***************************************************************************)
(* Claims about the Validator                                              *)
(***************************************************************************)
\* C1: validate(s, Strict) succeeds exactly when s is three dot-separated
\* numerals (digits only, no sign, value at most 4294967295); with three
\* components, the reason names the first offending one by its position.
C1_StrictIffThreeNumerals ==
    Validated("Simple") =>
        /\ res.ok <=> NumeralRelease(inp)
        /\ (Dots(inp) = 2 /\ ~NumeralRelease(inp)) =>
               LET parts == Split(inp, ".")
                   first == Min({i \in 1..3 : ~Numeral(parts[i])})
               IN  ~res.ok /\ res.name = ComponentNames[first] /\ res.val = parts[first]

\* C2 as stated: validate(s, SemverLike) succeeds exactly when s is R[-P][+B]
\* with R three dot-separated all-digit components.
C2_SemverIffAllDigitShape ==
    Validated("Semver") => (res.ok <=> SemverShape(inp, FALSE))

C2_Rejected ==
    { <<"1", ".", "0">>, <<"1">>, <<"1", ".", "2", ".", "3", "-">>,
      <<"1", ".", "2", ".", "3", "+">>, <<>>,
      <<"1", ".", "2", ".", "3", ".", "p", "o", "s", "t", "1">> }

\* C2 amended: validate(s, SemverLike) succeeds exactly when s is R[-P][+B]
\* with R three dot-separated all-digit components each of value at most
\* 4294967295, P and B non-empty with non-empty alphanumeric-or-hyphen
\* dot-segments; "1.0", "1", "1.2.3-", "1.2.3+", "" and "1.2.3.post1" are rejected.
C2_SemverIffNumeralShape ==
    Validated("Semver") =>
        /\ res.ok <=> SemverShape(inp, TRUE)
        /\ inp \in C2_Rejected => ~res.ok

\* a version with a pre-release and build metadata was accepted
C2_Witness ==
    /\ Validated("Semver")
    /\ res.ok
    /\ Has(inp, "-") /\ Has(inp, "+")

\* C3: validate(s, Extended) accepts s only if the text after the release is
\* at most one pre-release, then at most one post-release, then at most one
\* dev-release and nothing else; a suffix failure reports the unconsumed text.
C3_AcceptedSuffixInOrder ==
    Validated("Python") =>
        /\ res.ok => ExtendedBodyShape(Body(inp))
        /\ (~res.ok /\ res.why = "Invalid version suffix") =>
               res.val # <<>> /\ IsSuffixOf(res.val, Body(inp))

\* C4: under Extended, R.postN, RpostN, R.devN and RdevN are accepted for every
\* release R and digit run N, also with a pre-release between R and the suffix.
C4_BothSpellingsAccepted ==
    (/\ Validated("Python")
     /\ \E r \in 1..Len(inp), i \in 1..Len(inp) :
            /\ r <= i
            /\ ReleaseShape(Take(inp, r))
            /\ r = i \/ PreShape(SubSeq(inp, r + 1, i))
            /\ \E m \in {DotPost, BarePost, DotDev, BareDev} :
                   /\ starts_with(Drop(inp, i), m)
                   /\ DigitRunText(Drop(inp, i + Len(m))))
        => res.ok

C5_Accepted ==
    { <<"1">>, <<"1", ".", "0">>, <<"1", ".", "2", ".", "3", ".", "4">> }

C5_Rejected ==
    { <<>>, <<"1", ".", "0", ".">>, <<".", "1", ".", "0">>, <<"1", ".", ".", "0">>,
      <<"a", ".", "b", ".", "c">> }

\* the release part of a body: the text before the first letter, and before the
\* dot that introduces it
ReleasePart(b) ==
    LET letters == {i \in 1..Len(b) : ~is_ascii_digit(b[i]) /\ b[i] # "."}
        cut == IF letters = {} THEN Len(b) + 1 ELSE Min(letters)
    IN  IF cut <= Len(b) /\ cut > 1 /\ b[cut - 1] = "." /\ b[cut] \in {"p", "d"}
        THEN Take(b, cut - 2)
        ELSE Take(b, cut - 1)

\* C5: under Extended the release part is one or more dot-separated non-empty
\* digit segments: every such release with no suffix is accepted, and the empty
\* string and every string whose release part has an empty or non-digit
\* segment are rejected.
C5_ReleaseDigitSegments ==
    Validated("Python") =>
        /\ (\A i \in 1..Len(inp) : inp[i] = "." \/ is_ascii_digit(inp[i])) =>
               (res.ok <=> ReleaseShape(inp))
        /\ res.ok => ReleaseShape(ReleasePart(Body(inp)))
        /\ inp \in C5_Accepted => res.ok
        /\ inp \in C5_Rejected => ~res.ok

\* a release of four segments, one of them above u32::MAX, was accepted
C5_Witness ==
    /\ Validated("Python")
    /\ res.ok
    /\ ReleaseShape(inp) /\ Dots(inp) >= 3
    /\ \E i \in 1..Len(inp) : NumLess(U32MaxText, Take(inp, i)) /\ AllDigits(Take(inp, i))

\* C6: under Extended a string with '!' is accepted only if the text before
\* the first '!' is at least one digit and only digits, and a string with '+'
\* only if the text after the first '+' is non-empty with non-empty
\* alphanumeric dot-segments; otherwise the reason is 'Invalid epoch' or
\* 'Invalid local version'.
C6_EpochAndLocal ==
    Validated("Python") =>
        LET s == to_lowercase(inp)
            epoch == Take(s, Find(s, <<"!">>) - 1)
            local == Drop(AfterEpoch(inp), Find(AfterEpoch(inp), <<"+">>))
            epochOk == Has(s, "!") => DigitRunText(epoch)
            localOk == Has(AfterEpoch(inp), "+") => DotSegments(local, AlphanumericSet)
        IN  /\ res.ok => epochOk /\ localOk
            /\ ~epochOk => ~res.ok /\ res.why = "Invalid epoch" /\ res.val = epoch
            /\ (epochOk /\ ~localOk) =>
                   ~res.ok /\ res.why = "Invalid local version" /\ res.val = local

\* C7: every string accepted under Strict is accepted under SemverLike and
\* under Extended, and every string without '-' and '+' accepted under
\* SemverLike is accepted under Strict.
C7_StrictIsCommonCore ==
    /\ (Validated("Simple") /\ res.ok) =>
           validate_version(inp, "Semver").ok /\ validate_version(inp, "Python").ok
    /\ (Validated("Semver") /\ res.ok /\ ~Has(inp, "-") /\ ~Has(inp, "+")) =>
           validate_version(inp, "Simple").ok

(***************************************************************************)
(* Claims about the Bumper                                                 *)
(***************************************************************************)
Bumped(component) == op = "bump" /\ arg = component

\* the letter form of a pre-release kind
Letter(kind) ==
    CASE kind = "alpha" -> <<"a">> [] kind = "beta" -> <<"b">> [] kind = "rc" -> <<"r", "c">>

\* the kind a pre-release spelling stands for
KindOfSpelling(marker) ==
    CASE marker \in {<<"a">>, <<"a", "l", "p", "h", "a">>} -> "alpha"
      [] marker \in {<<"b">>, <<"b", "e", "t", "a">>} -> "beta"
      [] OTHER -> "rc"

\* the i-th component of a release text as a number, 0 when it is missing
ComponentOf(release, i) ==
    IF i <= Len(Split(release, ".")) THEN Canonical(Split(release, ".")[i]) ELSE Zero

\* major.minor.patch of a release text
Triple(release) ==
    ComponentOf(release, 1) \o Dot \o ComponentOf(release, 2) \o Dot \o ComponentOf(release, 3)

\* a release of dot-separated numerals, each of value at most 4294967295
NumeralSegments(r) ==
    ReleaseShape(r) /\ \A i \in 1..Len(Split(r, ".")) : Numeral(Split(r, ".")[i])

\* C8: for every v that parses and k in {alpha, beta, rc}, bump(v, k) is
\* major.minor.patch of v, the letter form of k and N, with N = n + 1 if v
\* carries a pre-release of kind k (in any spelling) with number n, else N = 1.
C8_PreReleaseBump ==
    \A k \in {"alpha", "beta", "rc"} :
        (Bumped(k) /\ parse_version(inp).ok) =>
            LET parsed == parse_version(inp)
                N == IF parsed.prerelease.some /\ parsed.prerelease.kind = k
                     THEN Succ(parsed.prerelease.num)
                     ELSE One
            IN  /\ res = Ok(Base(parsed) \o Letter(k) \o N)
                /\ \A m \in 1..Len(PreMarkers), r \in 1..Len(inp) :
                       (/\ NumeralSegments(Take(inp, r))
                        /\ starts_with(Drop(inp, r), PreMarkers[m])
                        /\ Numeral(Drop(inp, r + Len(PreMarkers[m])))) =>
                           /\ parsed.prerelease.some
                           /\ parsed.prerelease.kind = KindOfSpelling(PreMarkers[m])
                           /\ parsed.prerelease.num =
                                  Canonical(Drop(inp, r + Len(PreMarkers[m])))
                           /\ Base(parsed) = Triple(Take(inp, r))

\* C9: for every v that parses, bump(v, patch) is major.minor.patch of v with
\* the suffixes dropped if v carries a pre-release, post or dev suffix, and
\* major.minor.(patch+1) if it carries none; a missing minor or patch counts
\* as 0 and components beyond the third are dropped.
C9_PatchBump ==
    (Bumped("patch") /\ parse_version(inp).ok) =>
        LET parsed == parse_version(inp)
        IN  /\ IF parsed.prerelease.some \/ parsed.post.some \/ parsed.dev.some
               THEN res = Ok(Base(parsed))
               ELSE res = Ok(parsed.major \o Dot \o parsed.minor \o Dot \o Succ(parsed.patch))
            /\ NumeralSegments(inp) =>
                   res = Ok(ComponentOf(inp, 1) \o Dot \o ComponentOf(inp, 2)
                                \o Dot \o Succ(ComponentOf(inp, 3)))

\* C10: for every v that parses, bump(v, major) = (major+1).0.0 and
\* bump(v, minor) = major.(minor+1).0, every suffix, epoch and local part dropped.
C10_MajorMinorBump ==
    /\ (Bumped("major") /\ parse_version(inp).ok) =>
           res = Ok(Succ(parse_version(inp).major) \o Dot \o Zero \o Dot \o Zero)
    /\ (Bumped("minor") /\ parse_version(inp).ok) =>
           res = Ok(parse_version(inp).major \o Dot \o Succ(parse_version(inp).minor)
                        \o Dot \o Zero)

\* a pre-release as the claims write it: the letter form of its kind and its number
LetterForm(pre) == IF pre.some THEN Letter(pre.kind) \o pre.num ELSE <<>>

\* ".postN" of a post number, nothing when there is none
PostForm(post) == IF post.some THEN DotPost \o post.num ELSE <<>>

\* a counter plus 1, 1 when the version carries none
NextCounter(counter) == IF counter.some THEN Succ(counter.num) ELSE One

\* a release of numerals, alone or followed by one pre-release with its number
ReleaseAndPre(t) ==
    \E r \in 1..Len(t) :
        /\ NumeralSegments(Take(t, r))
        /\ r = Len(t)
              \/ \E m \in 1..Len(PreMarkers) :
                     /\ starts_with(Drop(t, r), PreMarkers[m])
                     /\ Numeral(Drop(t, r + Len(PreMarkers[m])))

\* t is head, then marker, then a numeral to the end of t
EndsWithCounter(t, r, marker) ==
    starts_with(Drop(t, r), marker) /\ Numeral(Drop(t, r + Len(marker)))

\* a release and pre-release, alone or followed by one post-release with its number
ReleasePrePost(t) ==
    \/ ReleaseAndPre(t)
    \/ \E q \in 1..Len(t), marker \in {DotPost, BarePost} :
           ReleaseAndPre(Take(t, q)) /\ EndsWithCounter(t, q, marker)

\* C11: for every v that parses, bump(v, post) = base + pre + ".post" + P with
\* P = v's post number plus 1 (1 without a post suffix), and bump(v, dev) =
\* base + pre + post + ".dev" + D with D = v's dev number plus 1 (1 without a
\* dev suffix); pre and post keep their numbers, and the post and dev numbers
\* of v are the numerals written after the markers, dotted or bare.
C11_PostDevBump ==
    LET parsed == parse_version(inp)
    IN  /\ (Bumped("post") /\ parsed.ok) =>
               res = Ok(Base(parsed) \o LetterForm(parsed.prerelease)
                            \o DotPost \o NextCounter(parsed.post))
        /\ (Bumped("dev") /\ parsed.ok) =>
               res = Ok(Base(parsed) \o LetterForm(parsed.prerelease)
                            \o PostForm(parsed.post) \o DotDev \o NextCounter(parsed.dev))
        /\ (op = "bump" /\ parsed.ok) =>
               \A r \in 1..Len(inp) :
                   /\ \A marker \in {DotPost, BarePost} :
                          (ReleaseAndPre(Take(inp, r)) /\ EndsWithCounter(inp, r, marker)) =>
                              /\ parsed.post = Some("", Canonical(Drop(inp, r + Len(marker))))
                              /\ ~parsed.dev.some
                   /\ \A marker \in {DotDev, BareDev} :
                          (ReleasePrePost(Take(inp, r)) /\ EndsWithCounter(inp, r, marker)) =>
                              /\ parsed.dev = Some("", Canonical(Drop(inp, r + Len(marker))))
                              /\ parsed.post.some <=> ~ReleaseAndPre(Take(inp, r))

\* ".devN" of a dev number, nothing when there is none
DevForm(dev) == IF dev.some THEN DotDev \o dev.num ELSE <<>>

\* C12: a pre-release bump leaves the post and dev counters alone: for every v
\* with a post and/or dev suffix and k in {alpha, beta, rc}, the result of
\* bump(v, k) still carries the same .postN and .devN as v.
C12_PreBumpKeepsPostDev ==
    \A k \in {"alpha", "beta", "rc"} :
        LET parsed == parse_version(inp)
        IN  (Bumped(k) /\ parsed.ok /\ res.ok /\ (parsed.post.some \/ parsed.dev.some)) =>
                IsSuffixOf(PostForm(parsed.post) \o DevForm(parsed.dev), res.val)

\* t without a leading marker and numeral, t itself when it does not start so
WithoutCounter(t, marker) ==
    IF starts_with(t, marker)
           /\ Numeral(Take(Drop(t, Len(marker)), DigitRun(Drop(t, Len(marker)))))
    THEN Drop(t, Len(marker) + DigitRun(Drop(t, Len(marker))))
    ELSE t

\* t without a leading a, b or rc and numeral
WithoutPre(t) ==
    IF starts_with(t, <<"r", "c">>) THEN WithoutCounter(t, <<"r", "c">>)
    ELSE IF starts_with(t, <<"a">>) THEN WithoutCounter(t, <<"a">>)
    ELSE WithoutCounter(t, <<"b">>)

\* the first n characters that make up the three release components of v: up
\* to the end of the digits after the second dot
ReleaseLen(v) ==
    LET dots == {i \in 1..Len(v) : v[i] = "."}
    IN  IF Cardinality(dots) < 2 THEN Len(v)
        ELSE LET second == Min(dots \ {Min(dots)})
             IN  second + DigitRun(Drop(v, second))

\* major.minor.patch, then optional {a|b|rc}N, optional .postN, optional .devN
CanonicalForm(v) ==
    /\ NumeralRelease(Take(v, ReleaseLen(v)))
    /\ WithoutCounter(WithoutCounter(WithoutPre(Drop(v, ReleaseLen(v))), DotPost),
                      DotDev) = <<>>

\* C13: every successful bump(v, k), whatever the spelling of v, returns a
\* string of the canonical form major.minor.patch[{a|b|rc}N][.postN][.devN],
\* and validate(_, Extended) accepts it.
C13_BumpResultCanonical ==
    (op = "bump" /\ res.ok) =>
        /\ CanonicalForm(res.val)
        /\ validate_version(res.val, "Python").ok

\* C13: a dev bump of a version written with a hyphenated pre-release and a
\* post suffix has succeeded
C13_Witness ==
    /\ Bumped("dev") /\ res.ok
    /\ Has(inp, "-")
    /\ parse_version(inp).prerelease.some /\ parse_version(inp).post.some
    /\ CanonicalForm(res.val)

\* a pre-release kind as the hyphenated form writes it
KindSpelling(kind) ==
    CASE kind = "alpha" -> <<"a", "l", "p", "h", "a">>
      [] kind = "beta" -> <<"b", "e", "t", "a">>
      [] kind = "rc" -> <<"r", "c">>

\* what precedes the first '-' of v
BeforeHyphen(v) == Take(v, Find(v, <<"-">>) - 1)

\* what follows the first '-' of v
AfterHyphen(v) == Drop(v, Find(v, <<"-">>))

\* v is R-K.N: a three-component numeric release, '-', the kind, '.', digits
IsHyphenForm(v, kind) ==
    /\ Find(v, <<"-">>) > 1
    /\ NumeralRelease(BeforeHyphen(v))
    /\ starts_with(AfterHyphen(v), KindSpelling(kind) \o Dot)
    /\ DigitRunText(Drop(AfterHyphen(v), Len(KindSpelling(kind)) + 1))

\* R + letter(K) + N for v = R-K.N
LetterSpelling(v, kind) ==
    BeforeHyphen(v) \o Letter(kind) \o Drop(AfterHyphen(v), Len(KindSpelling(kind)) + 1)

\* C14: the hyphenated pre-release decomposes to the same value as the letter
\* spelling: bump(R-K.N, k) = bump(R + letter(K) + N, k) for every keyword k,
\* bump("1.2.3-alpha.1", alpha) = "1.2.3a2", and no bump result has a hyphen.
C14_HyphenAsLetter ==
    /\ \A kind \in {"alpha", "beta", "rc"} :
           (op = "bump" /\ IsHyphenForm(inp, kind)) =>
               \E overflow_checks \in BOOLEAN :
                   /\ res = compute_new_version(inp, arg, overflow_checks)
                   /\ res = compute_new_version(LetterSpelling(inp, kind), arg,
                                                overflow_checks)
    /\ (Bumped("alpha") /\ inp = <<"1", ".", "2", ".", "3", "-", "a", "l", "p", "h", "a", ".", "1">>) =>
           res = Ok(<<"1", ".", "2", ".", "3", "a", "2">>)
    /\ (op = "bump" /\ res.ok) => ~Has(res.val, "-")

\* C14: a version written R-beta.N has been bumped by its own kind
C14_Witness ==
    /\ Bumped("beta") /\ res.ok
    /\ IsHyphenForm(inp, "beta")
    /\ res.val = BeforeHyphen(inp) \o <<"b">>
                     \o Succ(Drop(AfterHyphen(inp), Len(KindSpelling("beta")) + 1))

\* C15: release-drop is idempotent: when bump(v, release) succeeds, bumping its
\* result by release again succeeds with the same string; and bump(v, release)
\* is major.minor.patch of v, every suffix dropped.
C15_ReleaseIdempotent ==
    (Bumped("release") /\ res.ok) =>
        /\ \A overflow_checks \in BOOLEAN :
               compute_new_version(res.val, "release", overflow_checks) = res
        /\ res.val = Base(parse_version(inp))
        /\ \A r \in 1..Len(inp) :
               (NumeralSegments(Take(inp, r)) /\ SuffixShape(Drop(inp, r))) =>
                   res.val = Triple(Take(inp, r))

\* C15: a version with a two-component release and a suffix has been bumped by release
C15_Witness ==
    /\ Bumped("release") /\ res.ok
    /\ \E r \in 1..(Len(inp) - 1) :
           /\ NumeralSegments(Take(inp, r)) /\ Dots(Take(inp, r)) = 1
           /\ SuffixShape(Drop(inp, r))
           /\ res.val = Take(inp, r) \o Dot \o Zero

\* the (major, minor, patch) of a is lexicographically below that of b
LexLess(a, b) ==
    \/ NumLess(a[1], b[1])
    \/ a[1] = b[1] /\ NumLess(a[2], b[2])
    \/ a[1] = b[1] /\ a[2] = b[2] /\ NumLess(a[3], b[3])

\* the (major, minor, patch) of a parsed version
TripleOf(parsed) == <<parsed.major, parsed.minor, parsed.patch>>

\* the (major, minor, patch) written in a bump result
TripleIn(v) == <<ComponentOf(v, 1), ComponentOf(v, 2), ComponentOf(v, 3)>>

\* C16: bump monotonicity for every v that parses, every u32 value included:
\* bump(v, major) has a lexicographically greater (major, minor, patch);
\* bump(v, minor) keeps major and has a greater triple; bump(v, patch) of a v
\* without suffix keeps major and minor and has a greater patch.
C16_BumpMonotone ==
    LET parsed == parse_version(inp)
    IN  /\ (Bumped("major") /\ parsed.ok) =>
               res.ok /\ LexLess(TripleOf(parsed), TripleIn(res.val))
        /\ (Bumped("minor") /\ parsed.ok) =>
               /\ res.ok
               /\ TripleIn(res.val)[1] = parsed.major
               /\ LexLess(TripleOf(parsed), TripleIn(res.val))
        /\ (/\ Bumped("patch") /\ parsed.ok
            /\ ~(parsed.prerelease.some \/ parsed.post.some \/ parsed.dev.some)) =>
               /\ res.ok
               /\ TripleIn(res.val)[1] = parsed.major
               /\ TripleIn(res.val)[2] = parsed.minor
               /\ NumLess(parsed.patch, TripleIn(res.val)[3])

(***************************************************************************)
(* Claims about the Caster                                                 *)
(***************************************************************************)
Casted(target_kind) == op = "cast" /\ arg = target_kind

\* C17: for every s accepted by validate(s, Strict), cast(s, Strict) succeeds
\* and returns s unchanged, character for character.
C17_StrictCastIsIdentity ==
    (Casted("Simple") /\ validate_version(inp, "Simple").ok) => res = Ok(inp)

\* a release of digit segments followed by a hyphenated pre-release
HyphenatedBodyShape(b) ==
    \E r \in 1..Len(b) :
        /\ ReleaseShape(Take(b, r))
        /\ starts_with(Drop(b, r), <<"-">>)
        /\ DotSegments(Drop(b, r + 1), SemverIdChars)

\* an optional epoch, a release of digit segments with its suffixes (letter
\* pre-release, post, dev, or a hyphenated pre-release), an optional local part
NumericReleaseWithSuffixes(s) ==
    ExtendedBodyShape(Body(s)) \/ HyphenatedBodyShape(Body(s))

\* C18: cast(v, Strict) never fails for a v whose release segments are all
\* numeric, whatever epoch, local part, pre-release (alpha, beta, preview, rc,
\* a, b, c), post-release (.post or post), dev-release (.dev or dev) or
\* hyphenated pre-release surrounds the release.
C18_StrictCastNeverFails ==
    (Casted("Simple") /\ NumericReleaseWithSuffixes(inp)) => res.ok

\* how many leading characters of b are digits or dots
DigitDotRun(b) ==
    LET stops == {i \in 1..Len(b) : b[i] # "." /\ b[i] \notin DigitSet}
    IN  IF stops = {} THEN Len(b) ELSE Min(stops) - 1

\* the release of v as written: the leading digits and dots of v without
\* epoch and local part, less the dot that starts a suffix
WrittenRelease(v) ==
    LET b == Body(v)
        n == DigitDotRun(b)
    IN  IF 0 < n /\ n < Len(b) /\ b[n] = "." THEN Take(b, n - 1) ELSE Take(b, n)

\* the i-th segment of a release as written, 0 when it is absent
SegmentOrZero(release, i) ==
    IF i <= Len(Split(release, ".")) THEN Split(release, ".")[i] ELSE Zero

\* the first three segments, absent ones filled with 0
PadThree(release) ==
    SegmentOrZero(release, 1) \o Dot \o SegmentOrZero(release, 2)
        \o Dot \o SegmentOrZero(release, 3)

\* C19: whenever cast(v, Strict) succeeds its result is three dot-separated
\* digit groups that validate(_, Strict) accepts: the first three release
\* segments of v as written, absent ones filled with 0, later ones dropped,
\* without epoch, local part and suffixes.
C19_StrictCastResult ==
    /\ (Casted("Simple") /\ res.ok) =>
           /\ ThreeComponents(res.val, FALSE)
           /\ validate_version(res.val, "Simple").ok
           /\ res.val = PadThree(WrittenRelease(inp))
    /\ (Casted("Simple") /\ inp = <<"1">>) => res = Ok(<<"1", ".", "0", ".", "0">>)
    /\ (Casted("Simple") /\ inp = <<"1", ".", "2">>) => res = Ok(<<"1", ".", "2", ".", "0">>)
    /\ (Casted("Simple") /\ starts_with(inp, <<"1", "!", "1", ".", "2", ".", "3", "a", "1">>)) =>
           res = Ok(<<"1", ".", "2", ".", "3">>)

\* C19: a version with an epoch, two release segments, suffixes and a local
\* part has been cast to Strict
C19_Witness ==
    /\ Casted("Simple") /\ res.ok
    /\ Has(inp, "!") /\ Has(inp, "+")
    /\ Dots(WrittenRelease(inp)) # 2
    /\ Len(Body(inp)) > Len(WrittenRelease(inp))

\* C20: casting a conformant version to its own scheme changes nothing: for
\* every s accepted by validate(s, SemverLike), a hyphenated pre-release such
\* as "1.2.3-alpha.1" included, cast(s, SemverLike) returns s unchanged.
C20_SemverCastIsIdentity ==
    (Casted("Semver") /\ validate_version(inp, "Semver").ok) => res = Ok(inp)

\* nothing, .postK, .devK, or .postK.devK
DottedPostDev(t) ==
    \E j \in 0..Len(t) :
        /\ j = 0 \/ MarkerThenDigits(Take(t, j), DotPost)
        /\ j = Len(t) \/ MarkerThenDigits(Drop(t, j), DotDev)

\* the digit run n written in the result: N, or 0 when the marker has no digit
DigitsOrZero(digits) == IF digits = <<>> THEN Zero ELSE digits

\* C21: cast(R + m + N [+ .post/.dev suffixes], SemverLike) =
\* pad3(R) + "-" + kind(m) + "." + n for every numeric release R and marker m
\* in {alpha, a, beta, b, rc, c, preview}; n is the digit run N after the
\* marker, or 0 when the marker is followed by no digit.
C21_PreReleaseToSemver ==
    \A r \in 1..Len(inp), m \in 1..Len(PreMarkers) :
        LET after == Drop(inp, r + Len(PreMarkers[m]))
        IN  (/\ Casted("Semver")
             /\ ReleaseShape(Take(inp, r))
             /\ starts_with(Drop(inp, r), PreMarkers[m])
             /\ DottedPostDev(Drop(after, DigitRun(after)))) =>
                res = Ok(PadThree(Take(inp, r)) \o <<"-">>
                             \o KindSpelling(KindOfSpelling(PreMarkers[m])) \o Dot
                             \o DigitsOrZero(Take(after, DigitRun(after))))

\* C22: whenever cast(v, SemverLike) succeeds, validate(_, SemverLike) accepts
\* the result, and the result carries no post-release, dev-release, epoch or
\* local information of v.
C22_SemverCastIsValid ==
    (Casted("Semver") /\ res.ok) =>
        /\ validate_version(res.val, "Semver").ok
        /\ Find(res.val, BarePost) = 0 /\ Find(res.val, BareDev) = 0
        /\ ~Has(res.val, "!") /\ ~Has(res.val, "+")

(***************************************************************************)
(* Claims about the workflow                                               *)
(***************************************************************************)
CasterInvoked == \E i \in 1..Len(calls) : calls[i] = "cast_version"

\* C23: get_file_version(v, kind, policy): if validate(v, kind) succeeds the
\* result is v and the Caster is not invoked; if it fails under Error the
\* result is an error and the Caster is not invoked; if it fails under Cast
\* the result is cast(v, kind) only when the cast succeeds and validates for
\* kind, else an error.  Every version returned is accepted by validate(_, kind).
C23_FileVersion ==
    op = "get_file_version" =>
        LET valid == validate_version(inp, arg).ok
            casted == cast_version(inp, arg)
        IN  /\ valid => (res = Ok(inp) /\ ~CasterInvoked)
            /\ (~valid /\ policy = "Error") => (~res.ok /\ ~CasterInvoked)
            /\ (~valid /\ policy = "Cast") =>
                   IF casted.ok /\ validate_version(casted.val, arg).ok
                   THEN res = Ok(casted.val)
                   ELSE ~res.ok
            /\ res.ok => validate_version(res.val, arg).ok

\* C23: a version invalid for the file's kind has been replaced by its cast
C23_Witness ==
    /\ op = "get_file_version" /\ policy = "Cast"
    /\ ~validate_version(inp, arg).ok
    /\ res.ok /\ res.val # inp /\ CasterInvoked

\* the error message that names a release component
InvalidVersionMessages ==
    <<"Invalid major version", "Invalid minor version", "Invalid patch version">>

\* the characters of a plain dotted version with a non-numeric component
PlainChars == DigitSet \cup {"x"}

\* the first of the first three components of a dotted text that is no
\* numeral (a missing component counts as 0), 0 when there is none
FirstOffending(v) ==
    LET bad == {i \in 1..3 : i <= Len(Split(v, ".")) /\ ~Numeral(Split(v, ".")[i])}
    IN  IF bad = {} THEN 0 ELSE Min(bad)

\* an error that names one release component and carries no version
NamesComponent(r) ==
    ~r.ok /\ \E i \in 1..3 : r.why = InvalidVersionMessages[i]

\* for a keyword, a current version with an unparseable first, second or third
\* release component gives an error naming that component
ComponentErrors ==
    (op = "bump" /\ arg \in Keywords) =>
        /\ ~parse_version(inp).ok => NamesComponent(res)
        /\ (DotSegments(inp, PlainChars) /\ FirstOffending(inp) > 0) =>
               (~res.ok /\ res.why = InvalidVersionMessages[FirstOffending(inp)])

\* the error that names the accepted set
NamesAcceptedSet(r) == ~r.ok /\ r = InvalidComponent(arg)

\* C24 as claimed: for every current version a target outside the keywords
\* gives the error naming the accepted set; for every keyword an unparseable
\* release component gives an error naming that component.
C24_BumpErrorsAnyVersion ==
    /\ (op = "bump" /\ arg \notin Keywords) => NamesAcceptedSet(res)
    /\ ComponentErrors

\* C24 amended: the error naming the accepted set is returned for every
\* current version that parses; a current version with an unparseable release
\* component gives the error naming that component for every target.
C24_BumpErrors ==
    /\ (op = "bump" /\ arg \notin Keywords /\ parse_version(inp).ok) => NamesAcceptedSet(res)
    /\ (op = "bump" /\ arg \notin Keywords /\ ~parse_version(inp).ok) => NamesComponent(res)
    /\ ComponentErrors

\* C24: an unknown target has been refused on a version that parses
C24_Witness ==
    /\ op = "bump" /\ arg \notin Keywords
    /\ parse_version(inp).ok /\ parse_version(inp).prerelease.some
    /\ NamesAcceptedSet(res)

\* a release of numerals followed by a well-formed suffix or by a hyphenated
\* pre-release
WellFormedBody(b) ==
    \E r \in 1..Len(b) :
        /\ NumeralSegments(Take(b, r))
        /\ \/ SuffixShape(Drop(b, r))
           \/ /\ starts_with(Drop(b, r), <<"-">>)
              /\ DotSegments(Drop(b, r + 1), SemverIdChars)

\* C25 as claimed: parse_version never fails for a non-empty input that
\* starts with a digit run, whatever follows the leading component.
C25_ParseNeverFailsAfterDigits ==
    (op = "bump" /\ inp # <<>> /\ inp[1] \in DigitSet) =>
        /\ parse_version(inp).ok
        /\ Bumped("release") => res.ok

\* C25 amended: parse_version never fails for an optional epoch, a release of
\* dot-separated numerals (each at most 4294967295), a well-formed suffix (at
\* most one pre-release, post-release and dev-release in that order, or a
\* hyphenated pre-release) and an optional local part.
C25_ParseWellFormed ==
    (op = "bump" /\ WellFormedBody(Body(inp))) =>
        /\ parse_version(inp).ok
        /\ Bumped("release") => res.ok

\* C25: a version with a pre-release and a bare post suffix has been decomposed
C25_Witness ==
    /\ Bumped("release") /\ res.ok
    /\ WellFormedBody(Body(inp))
    /\ parse_version(inp).prerelease.some /\ parse_version(inp).post.some
    /\ Find(inp, DotPost) = 0

\* C26: every failure of bump is a value and no number is reduced modulo 2^32:
\* bump never aborts the process, and when the component or counter it
\* increments is 4294967295 a version it returns carries 4294967296, not 0.
C26_NoAbortNoWrap ==
    op = "bump" =>
        /\ res # Panic
        /\ (/\ res.ok /\ parse_version(inp).ok
            /\ Operand(parse_version(inp), arg) = U32MaxText) =>
               res = Formatted(parse_version(inp), arg, Succ(U32MaxText))

\* the text the marker scan runs on: v without epoch, local part, dev and post
ScannedText(v) ==
    StripSuffix(StripSuffix(StripEpochLocal(v), DotDev, BareDev).rest, DotPost, BarePost).rest

\* C27: the hyphenated form applies only if the marker scan set no
\* pre-release: whenever the marker scan finds a pre-release, the kind and
\* number of the decomposition are the scan's, even if the release text left
\* has a '-' followed by alpha, beta or rc; a post bump then re-appends them.
C27_ScanWinsOverHyphen ==
    LET scanned == ScanMarkers(ScannedText(inp))
        parsed == parse_version(inp)
    IN  (op = "bump" /\ parsed.ok /\ scanned.pre.some) =>
            /\ parsed.prerelease = scanned.pre
            /\ (Bumped("post") /\ res.ok) =>
                   starts_with(res.val, Base(parsed) \o LetterForm(scanned.pre) \o DotPost)

\* the command a call issued: add, commit, tag, push, or push-tag
CommandOf(call) ==
    IF call.args[1] = "push" /\ Len(call.args) > 1 THEN "push-tag" ELSE call.args[1]

\* the one order in which commands are issued
CommandOrder == <<"add", "commit", "tag", "push", "push-tag">>

\* how many commands an action selects
CommandCount(action) ==
    CASE action = "Disabled" -> 0
      [] action = "Commit" -> 2
      [] action = "CommitAndTag" -> 3
      [] action = "CommitTagAndPush" -> 5

\* C28: run_git_actions issues add --all, commit, tag, push, push-tag in that
\* order, as many as the action selects, and each runs only if every earlier
\* one succeeded: the first failure's error is returned and nothing runs
\* after it, so there is no tag without a successful commit and no push
\* without a successful tag.
C28_GitActionsInOrder ==
    op \in {"run_git_actions", "done"} =>
        /\ Len(calls) <= CommandCount(arg)
        /\ \A i \in 1..Len(calls) : CommandOf(calls[i]) = CommandOrder[i]
        /\ \A i \in 1..(Len(calls) - 1) : calls[i].outcome = "success"
        /\ \A i \in 1..Len(calls) :
               /\ CommandOf(calls[i]) = "tag" =>
                      \E j \in 1..(i - 1) :
                          CommandOf(calls[j]) = "commit" /\ calls[j].outcome = "success"
               /\ CommandOf(calls[i]) \in {"push", "push-tag"} =>
                      \E j \in 1..(i - 1) :
                          CommandOf(calls[j]) = "tag" /\ calls[j].outcome = "success"
        /\ op = "done" =>
               IF calls # <<>> /\ calls[Len(calls)].outcome # "success"
               THEN ~res.ok /\ res = git(calls[Len(calls)].args, calls[Len(calls)].outcome)
               ELSE res.ok /\ Len(calls) = CommandCount(arg)
        /\ (op = "run_git_actions" /\ calls # <<>>) => calls[Len(calls)].outcome = "success"

\* C28: after a failing command nothing more runs
C28_Witness ==
    /\ op = "done" /\ arg = "CommitTagAndPush"
    /\ Len(calls) = 3 /\ CommandOf(calls[3]) = "tag" /\ calls[3].outcome = "failure"
    /\ ~res.ok

\* the keys the loop acts on, by what the help line says they do
NavigationKeys == {"Up", "k", "Down", "j"}

SelectionKeys == {" ", "a", "n"}

ExitKeys == {"q", "Esc", "Enter"}

\* a key press was read in this step
KeyPressed == pieces' # pieces /\ arg'.type = "Key" /\ arg'.kind = "Press"

\* the event loop is left in this step
LoopEnds == op = "run_tui" /\ op' # "run_tui"

\* the highlighted index is a row of the list whenever the list is shown
IndexInRange ==
    (op \in {"run_tui", "teardown"} /\ changes # <<>>) =>
        cursor \in 0..(Len(changes) - 1)

\* an empty list returns true at once, no event having been read
EmptyListReturnsTrue ==
    (changes = <<>> /\ op # "input") =>
        op = "done" /\ res = Ok(<<TRUE>>) /\ pieces = 0 /\ arg = NoEvent

\* Up at the first row goes to the last and Down at the last to the first
NavigationWraps ==
    KeyPressed =>
        /\ (arg'.code \in {"Up", "k"} /\ cursor = 0) => cursor' = Len(changes) - 1
        /\ (arg'.code \in {"Down", "j"} /\ cursor = Len(changes) - 1) => cursor' = 0

\* navigation keys and keys without a meaning leave every flag as it was
FlagsKept ==
    (KeyPressed /\ arg'.code \notin SelectionKeys \cup ExitKeys) => changes' = changes

EndedByEnter == KeyPressed /\ arg'.code = "Enter" /\ res' = Ok(<<TRUE>>)

EndedByQuit == KeyPressed /\ arg'.code \in {"q", "Esc"} /\ res' = Ok(<<FALSE>>)

EndedByIoError == pieces' = pieces /\ res' = IoError

ActionSet == {inp[k] : k \in 1..Len(inp)}

\* the four rules on a set of actions
ActionRules ==
    /\ "tag" \in ActionSet => "commit" \in ActionSet
    /\ "push" \in ActionSet => "commit" \in ActionSet
    /\ "pr" \in ActionSet => ("push" \in ActionSet /\ "branch" \in ActionSet)
    /\ ~("tag" \in ActionSet /\ "branch" \in ActionSet)

\* C30: GitConfig::validate returns Ok exactly for the action sets where tag
\* implies commit, push implies commit, pr implies push and branch, and tag
\* and branch are not both present; so an accepted set with pr has commit,
\* and the default list add-all, commit, tag is accepted.
C30_ValidateIffRules ==
    op = "validate" =>
        /\ res.ok <=> ActionRules
        /\ (res.ok /\ "pr" \in ActionSet) => "commit" \in ActionSet
        /\ inp = <<"add-all", "commit", "tag">> => res.ok

\* C30: an accepted list that holds pr with push, branch and commit
C30_Witness ==
    /\ op = "validate" /\ res.ok
    /\ ActionSet = {"pr", "push", "branch", "commit"}

====
